---- MODULE Spec2Model ----
(***************************************************************************)
(* A model of yaspi (src/yaspi.py): the Yaspi class with its template      *)
(* renderer fill_template, the script-set generation generate_scripts,    *)
(* the log path derivation get_log_paths and the submission submit.       *)
(*                                                                         *)
(* Text is a sequence of tokens.  The tokens "{" and "}" are single        *)
(* characters (the ones the placeholder regex looks at); any other token   *)
(* is an opaque run of characters holding neither brace nor "/".           *)
(* Positions and spans are 0-based and half-open, as in Python.            *)
(***************************************************************************)
EXTENDS Integers, Sequences, FiniteSets, TLC

\* ------------------------------------------------------------------ bounds
MaxRowLen == 6    \* longest enumerated template row (SpecFill)
MaxKeyLen == 2    \* longest placeholder name the full rule mappings hold
MaxArray == 2     \* largest job_array_size
MaxGpus == 2      \* largest gpus_per_task
MaxSubmits == 2   \* submit() calls per job object
MaxCalls == 2     \* direct get_log_paths() calls per job object
MaxLogLen == 1    \* tokens a log file holds before the scheduler stops writing

VARIABLES
    \* --- the Yaspi object and its surroundings (Spec)
    args,          \* the caller's keyword arguments to Yaspi(...)
    templates,     \* the template files under template_dir: role -> rows
    pc,            \* "new", "failed", "idle", "logs_done", "cmd_done", "watching"
    job,           \* the object's caller-supplied attributes (self.cmd ...)
    log_path,      \* self.log_path
    gen_scripts,   \* self.gen_scripts
    rules,         \* the rule tables built by generate_scripts
    error,         \* the exception the constructor raised, or None
    read,          \* roles whose template file generate_scripts has opened
    scripts,       \* generated script files: destination path -> file
    dirs,          \* directories created by mkdir
    logs,          \* log files: resolved path -> content
    old_logs,      \* the log files when get_log_paths was last entered
    watch,         \* submit's argument
    watched_logs,  \* the last value get_log_paths returned
    events,        \* what the running submit has done so far, in order
    nsubmits,      \* submit() calls started
    ncalls,        \* get_log_paths() calls made
    \* --- one fill_template call on its own (SpecFill)
    fpc,           \* "input", "done", "raised"
    template,      \* the rows of the template file
    frules,        \* the rule mapping
    generated      \* the text returned, or the missing key

mainVars == <<args, templates, pc, job, log_path, gen_scripts, rules, error,
              read, scripts, dirs, logs, old_logs, watch, watched_logs,
              events, nsubmits, ncalls>>
fillVars == <<fpc, template, frules, generated>>
vars == <<mainVars, fillVars>>

None == "None"

\* ------------------------------------------------------------ text helpers
RECURSIVE Concat(_)
Concat(ss) == IF ss = <<>> THEN <<>> ELSE Head(ss) \o Concat(Tail(ss))

Min(S) == CHOOSE x \in S : \A y \in S : x <= y

RECURSIVE SeqsUpTo(_, _)
SeqsUpTo(A, n) ==
    IF n = 0 THEN {<<>>}
    ELSE LET shorter == SeqsUpTo(A, n - 1)
         IN  shorter \cup {Append(s, a) : s \in shorter, a \in A}

\* Python's s[start:stop] for 0 <= start, stop <= len(s)
Slice(s, start, stop) == SubSeq(s, start + 1, stop)

DigitChar == <<"0", "1", "2", "3", "4", "5", "6", "7", "8", "9">>

\* str(n) of an int
RECURSIVE IntStr(_)
IntStr(n) ==
    IF n < 0 THEN <<"-">> \o IntStr(0 - n)
    ELSE IF n < 10 THEN <<DigitChar[n + 1]>>
    ELSE IntStr(n \div 10) \o <<DigitChar[(n % 10) + 1]>>

\* A rule value is an int [int |-> n] or a string [str |-> text].
IntV(n) == [int |-> n]
StrV(s) == [str |-> s]

\* str(x) of a rule value
Str(v) == IF "int" \in DOMAIN v THEN IntStr(v.int) ELSE v.str

\* --------------------------------------------------- fill_template's regex
\* re.finditer(r"\{\{(.*?)\}\}", row): leftmost match, shortest name, the
\* search resuming at the end of the previous match.
Opens(row, s) ==
    s + 2 <= Len(row) /\ row[s + 1] = "{" /\ row[s + 2] = "{"

Closes(row, s) ==
    {j \in (s + 2)..(Len(row) - 2) : row[j + 1] = "}" /\ row[j + 2] = "}"}

MatchesAt(row, s) == Opens(row, s) /\ Closes(row, s) # {}

\* match.span() of the match starting at s
SpanAt(row, s) == <<s, Min(Closes(row, s)) + 2>>

RECURSIVE FindIter(_, _)
FindIter(row, pos) ==
    IF pos >= Len(row) THEN <<>>
    ELSE IF MatchesAt(row, pos)
         THEN <<SpanAt(row, pos)>> \o FindIter(row, SpanAt(row, pos)[2])
         ELSE FindIter(row, pos + 1)

\* match.groups()[0]
Group(row, span) == Slice(row, span[1] + 2, span[2] - 2)

\* ------------------------------------------------------------ fill_template
\* edits: one (span, token) per match, token = rules[key]
Edits(row, rls) ==
    LET found == FindIter(row, 0)
    IN  [i \in 1..Len(found) |->
            [span |-> found[i], token |-> rls[Group(row, found[i])]]]

\* the keys the row looks up, in lookup order
RowKeys(row) ==
    LET found == FindIter(row, 0)
    IN  [i \in 1..Len(found) |-> Group(row, found[i])]

\* spans = [(None, 0)] + [x[0] for x in edits] + [(len(row), None)]
Spans(row, edits) ==
    <<<<None, 0>>>> \o [i \in 1..Len(edits) |-> edits[i].span]
                   \o <<<<Len(row), None>>>>

\* inverse_spans = [(x[1], y[0]) for x, y in zip(spans, spans[1:])]
InverseSpans(spans) ==
    [i \in 1..(Len(spans) - 1) |-> <<spans[i][2], spans[i + 1][1]>>]

\* tokens = [row[start:stop] for start, stop in inverse_spans]
Tokens(row, inverse_spans) ==
    [i \in 1..Len(inverse_spans) |->
        Slice(row, inverse_spans[i][1], inverse_spans[i][2])]

\* urls = [str(x[1]) for x in edits]
Urls(edits) == [i \in 1..Len(edits) |-> Str(edits[i].token)]

\* zip(tokens, urls): stops at the shorter list
ZipShortest(tokens, urls) ==
    LET n == IF Len(tokens) <= Len(urls) THEN Len(tokens) ELSE Len(urls)
    IN  [i \in 1..n |-> <<tokens[i], urls[i]>>]

\* zip_longest(tokens, urls, fillvalue="")
ZipLongest(tokens, urls) ==
    LET n == IF Len(tokens) >= Len(urls) THEN Len(tokens) ELSE Len(urls)
    IN  [i \in 1..n |->
            <<IF i <= Len(tokens) THEN tokens[i] ELSE <<>>,
              IF i <= Len(urls) THEN urls[i] ELSE <<>>>>]

\* new_row: token + url of every zipped pair, in order
NewRow(pairs) == Concat([i \in 1..Len(pairs) |-> pairs[i][1] \o pairs[i][2]])

\* the body of "for row in template" for a row whose keys are all in rls
FillRow(row, rls) ==
    LET edits == Edits(row, rls)
    IN  IF edits = <<>> THEN row
        ELSE NewRow(ZipLongest(Tokens(row, InverseSpans(Spans(row, edits))),
                               Urls(edits)))

\* "\n".join(generated)
RECURSIVE JoinNL(_)
JoinNL(rows) ==
    IF rows = <<>> THEN <<>>
    ELSE IF Len(rows) = 1 THEN rows[1]
    ELSE rows[1] \o <<"\n">> \o JoinNL(Tail(rows))

\* every lookup rules[key] of the template, in the order the code makes them
TemplateKeys(tmpl) == Concat([i \in 1..Len(tmpl) |-> RowKeys(tmpl[i])])

MissingKeys(tmpl, rls) ==
    LET keys == TemplateKeys(tmpl)
    IN  {i \in 1..Len(keys) : keys[i] \notin DOMAIN rls}

\* fill_template(template_path, rules), the file's rows given: the text it
\* returns, or the key whose lookup raised KeyError
fill_template(tmpl, rls) ==
    LET missing == MissingKeys(tmpl, rls)
    IN  IF missing # {}
        THEN [ok |-> FALSE, key |-> TemplateKeys(tmpl)[Min(missing)]]
        ELSE [ok |-> TRUE,
              text |-> JoinNL([i \in 1..Len(tmpl) |-> FillRow(tmpl[i], rls)])]

\* --------------------------------------- inputs of one fill_template call
Alphabet == {"a", "x", "{", "}"}

ExampleRows ==
    { <<"a", "{", "{", "x", "}", "}", "b", "{", "{", "y", "}", "}", "c">>,
      <<"{", "{", "x", "}", "}", "{", "{", "y", "}", "}">>,
      <<" ", "{", "{", "y", "}", "}", "{", "b", "}", "{", "{", "x", "}", "}", " ">>,
      <<"{", "{", " ", "x", "}", "}", "{", "{", "x", " ", "}", "}">> }

Rows == SeqsUpTo(Alphabet, MaxRowLen) \cup ExampleRows

ExampleTemplates ==
    { <<<<"a">>, <<"{", "{", "x", "}", "}">>, <<>>, <<"{", "{", "y", "}", "}", "c">>>>,
      <<<<"{", "{", "z", "}", "}">>, <<"a">>>> }

\* the value a full rule mapping gives a key: ints, the empty string, text
\* that itself looks like a placeholder, and text naming the key
ValueOf(k) ==
    IF k = <<>> THEN IntV(7)
    ELSE IF k = <<"x">> THEN StrV(<<"1">>)
    ELSE IF k = <<"y">> THEN StrV(<<"2", "2">>)
    ELSE IF k = <<"a">> THEN StrV(<<>>)
    ELSE IF k = <<"{">> THEN StrV(<<"{", "{", "x", "}", "}">>)
    ELSE IF k = <<"x", "x">> THEN IntV(-10)
    ELSE StrV(<<"<">> \o k \o <<">">>)

FullKeys ==
    SeqsUpTo(Alphabet, MaxKeyLen) \cup {<<"y">>, <<" ", "x">>, <<"x", " ">>}

RuleChoices ==
    { [k \in FullKeys |-> ValueOf(k)],
      [k \in {<<"x">>, <<"a">>} |-> StrV(<<"v">> \o k)] }

Fill ==
    /\ fpc = "input"
    /\ fill_template(template, frules).ok
    /\ fpc' = "done"
    /\ generated' = fill_template(template, frules).text
    /\ UNCHANGED <<template, frules>>

FillRaises ==
    /\ fpc = "input"
    /\ ~fill_template(template, frules).ok
    /\ fpc' = "raised"
    /\ generated' = fill_template(template, frules).key
    /\ UNCHANGED <<template, frules>>

\* ------------------------------------------------------------ pathlib.Path
\* A path is [abs, parts]: whether it is anchored at "/", and its components,
\* each a text without "/".
RECURSIVE SplitParts(_, _)
SplitParts(text, cur) ==
    IF text = <<>> THEN (IF cur = <<>> THEN <<>> ELSE <<cur>>)
    ELSE IF Head(text) = "/"
         THEN (IF cur = <<>> THEN <<>> ELSE <<cur>>) \o SplitParts(Tail(text), <<>>)
         ELSE SplitParts(Tail(text), cur \o <<Head(text)>>)

\* Path(text)
PathOf(text) ==
    [abs |-> text # <<>> /\ Head(text) = "/", parts |-> SplitParts(text, <<>>)]

RECURSIVE JoinParts(_)
JoinParts(parts) ==
    IF parts = <<>> THEN <<>>
    ELSE IF Len(parts) = 1 THEN parts[1]
    ELSE parts[1] \o <<"/">> \o JoinParts(Tail(parts))

\* str(path)
PathStr(p) ==
    IF p.abs THEN <<"/">> \o JoinParts(p.parts)
    ELSE IF p.parts = <<>> THEN <<".">>
    ELSE JoinParts(p.parts)

\* p / q
Join(p, q) == IF q.abs THEN q ELSE [abs |-> p.abs, parts |-> p.parts \o q.parts]

\* p.relative_to(base), for p under base (ValueError otherwise)
RelativeTo(p, base) ==
    [abs |-> FALSE, parts |-> SubSeq(p.parts, Len(base.parts) + 1, Len(p.parts))]

\* p.parent
Parent(p) ==
    [abs |-> p.abs,
     parts |-> IF p.parts = <<>> THEN <<>> ELSE SubSeq(p.parts, 1, Len(p.parts) - 1)]

\* the process's working directory
Cwd == [abs |-> TRUE, parts |-> <<<<"work">>>>]

\* p.resolve(): no symbolic links and no ".." in the paths of the model
Resolve(p) == IF p.abs THEN p ELSE Join(Cwd, p)

\* -------------------------------------------------------- generate_scripts
NoneV == [none |-> TRUE]

\* the order "for key, template_path in template_paths.items()" visits
RoleOrder == <<"master", "sbatch", "head-node", "worker-node">>

\* template_paths of the "ray" recipe
TemplatePaths ==
    [role \in {"master", "sbatch", "head-node", "worker-node"} |->
        IF role = "master" THEN <<"ray", "/", "ray-master.sh">>
        ELSE IF role = "sbatch" THEN <<"ray", "/", "ray-sbatch.sh">>
        ELSE IF role = "head-node" THEN <<"ray", "/", "start-ray-head-node.sh">>
        ELSE <<"ray", "/", "start-ray-worker-node.sh">>]

\* the env_setup the "ray" recipe falls back on
DefaultEnvSetup ==
    StrV(<<"export PYTHONPATH", "\n", "export PATH", "\n",
           "source conda.sh", "\n", "conda activate pt37">>)

\* "if self.gpus_per_task:" -- Python truth of None or an int
Truthy(v) == v # NoneV /\ v # IntV(0)

\* a value inside an f-string
Fmt(v) == IF v = NoneV THEN <<"None">> ELSE Str(v)

\* self.log_path
LogPath(self) ==
    PathStr(Join(Join(PathOf(self.log_dir), PathOf(self.job_name)),
                 PathOf(<<"%4a", "-log.txt">>)))

\* f"SBATCH --gres=gpu:{self.gpus_per_task}"
ResourceStr(self) == <<"SBATCH --gres=gpu:">> \o Fmt(self.gpus_per_task)

\* the rules of the "sbatch" role before the gpu test
SbatchRules(self, gen_dir) ==
    (<<"cmd">> :> StrV(self.cmd))
    @@ (<<"log_path">> :> StrV(LogPath(self)))
    @@ (<<"job_name">> :> StrV(self.job_name))
    @@ (<<"partition">> :> StrV(self.partition))
    @@ (<<"env_setup">> :> self.env_setup)
    @@ (<<"array">> :> StrV(<<"1", "-">> \o Fmt(self.job_array_size)))
    @@ (<<"cpus_per_task">> :> self.cpus_per_task)
    @@ (<<"approx_ray_init_time_in_secs">> :> IntV(10))
    @@ (<<"head_init_script">> :>
            StrV(PathStr(Join(gen_dir, PathOf(TemplatePaths["head-node"])))))
    @@ (<<"worker_init_script">> :>
            StrV(PathStr(Join(gen_dir, PathOf(TemplatePaths["worker-node"])))))

\* rules["sbatch"] once "if self.gpus_per_task:" has run
WithResources(self, sbatch) ==
    IF Truthy(self.gpus_per_task)
    THEN (<<"sbatch_resources">> :> StrV(ResourceStr(self))) @@ sbatch
    ELSE sbatch

\* rules, self being the object after the env_setup default is set
Rules(self) ==
    LET gen_dir == PathOf(self.gen_script_dir)
    IN  [role \in {"master", "sbatch", "head-node", "worker-node"} |->
            IF role = "master"
            THEN (<<"nfs_update_secs">> :> IntV(1))
                 @@ (<<"ray_sbatch_path">> :>
                        StrV(PathStr(Join(gen_dir, PathOf(TemplatePaths["sbatch"])))))
            ELSE IF role = "sbatch"
            THEN WithResources(self, SbatchRules(self, gen_dir))
            ELSE (<<"env_setup">> :> self.env_setup)]

\* "if self.env_setup is None: self.env_setup = (...)"
WithEnvSetup(self) ==
    IF self.env_setup = NoneV
    THEN [self EXCEPT !.env_setup = DefaultEnvSetup]
    ELSE self

\* dest_path = gen_dir / template_path, the template root not taken off
DestPathUnstripped(self, role) ==
    Join(PathOf(self.gen_script_dir),
         Join(PathOf(self.template_dir), PathOf(TemplatePaths[role])))

\* dest_path = gen_dir / Path(template_path).relative_to(self.template_dir)
DestPath(self, role) ==
    LET template_path == Join(PathOf(self.template_dir), PathOf(TemplatePaths[role]))
    IN  Join(PathOf(self.gen_script_dir),
             RelativeTo(template_path, PathOf(self.template_dir)))

\* the destination opened for writing before the template is rendered
RaisedAfterOpen(acc, key, dest_path) ==
    [acc EXCEPT !.read = @ \cup {key}, !.error = "KeyError",
                !.scripts = (PathStr(dest_path) :> [text |-> <<>>, mode |-> "644"]) @@ @]

\* fill_template raises KeyError for the role key: the template was opened,
\* nothing of the role is recorded or written, the exception leaves the loop
Raised(acc, key, dest_path) ==
    [acc EXCEPT !.read = @ \cup {key}, !.error = "KeyError"]

\* The loop over template_paths.items() from the i-th role on.  acc holds
\* gen_scripts, the files and directories on disk, the templates opened and
\* the exception raised.  A KeyError out of fill_template ends the loop.
RECURSIVE WriteScripts(_, _, _, _, _)
WriteScripts(self, tmpls, rls, i, acc) ==
    IF i > Len(RoleOrder) THEN acc
    ELSE LET key == RoleOrder[i]
             gen == fill_template(tmpls[key], rls[key])
             dest_path == DestPath(self, key)
         IN  IF ~gen.ok
             THEN Raised(acc, key, dest_path)
             ELSE WriteScripts(self, tmpls, rls, i + 1,
                    [acc EXCEPT
                       !.read = @ \cup {key},
                       !.gen_scripts = (key :> dest_path) @@ @,
                       !.dirs = @ \cup {PathStr(Parent(dest_path))},
                       !.scripts = (PathStr(dest_path) :>
                                       [text |-> gen.text, mode |-> "755"]) @@ @])

\* the "ray" branch of generate_scripts and the loop after it
RayRecipe(self, tmpls, disk) ==
    LET self1 == WithEnvSetup(self)
        rls == Rules(self1)
        acc == WriteScripts(self1, tmpls, rls, 1,
                   [gen_scripts |-> <<>>, scripts |-> disk.scripts,
                    dirs |-> disk.dirs, read |-> {}, error |-> None])
    IN  [self |-> self1, log_path |-> LogPath(self1), rules |-> rls,
         gen_scripts |-> acc.gen_scripts, scripts |-> acc.scripts,
         dirs |-> acc.dirs, read |-> acc.read, error |-> acc.error]

\* raise ValueError(f"template: {self.recipe} unrecognised")
Unrecognised(self, tmpls, disk) ==
    [self |-> self, log_path |-> <<>>, rules |-> <<>>,
     gen_scripts |-> <<>>, scripts |-> disk.scripts, dirs |-> disk.dirs,
     read |-> {}, error |-> "ValueError"]

\* generate_scripts without the test of the recipe name
AnyRecipe(self, tmpls, disk) == RayRecipe(self, tmpls, disk)

\* generate_scripts(self): the object, the rule tables and the disk after it
generate_scripts(self, tmpls, disk) ==
    IF self.recipe = "ray"
    THEN RayRecipe(self, tmpls, disk)
    ELSE Unrecognised(self, tmpls, disk)

\* ----------------------------------------------------------- get_log_paths
\* f"{slurm_id:04d}"
Pad4(n) ==
    LET digits == IntStr(n)
    IN  IF Len(digits) >= 4 THEN digits
        ELSE [i \in 1..(4 - Len(digits)) |-> "0"] \o digits

\* text.replace(old, new) for a one-token old
Replace(text, old, new) ==
    Concat([i \in 1..Len(text) |-> IF text[i] = old THEN new ELSE <<text[i]>>])

\* slurm_id = idx, the task index taken 0-based
SlurmIdZeroBased(idx) == idx

\* slurm_id = idx + 1
SlurmId(idx) == idx + 1

\* watched_log of the iteration idx
WatchedLog(lp, idx) == PathOf(Replace(lp, "%4a", Pad4(SlurmId(idx))))

\* the log file unlinked whether or not refresh_logs is set
RefreshedAlways(files, refresh, f) ==
    IF f \in DOMAIN files THEN [g \in DOMAIN files \ {f} |-> files[g]] ELSE files

\* the log file never unlinked
RefreshedNever(files, refresh, f) == files

\* "if self.refresh_logs: if watched_log.exists(): watched_log.unlink()"
Refreshed(files, refresh, f) ==
    IF refresh /\ f \in DOMAIN files
    THEN [g \in DOMAIN files \ {f} |-> files[g]]
    ELSE files

\* "if not watched_log.exists(): watched_log.touch()"
Touched(files, f) == IF f \in DOMAIN files THEN files ELSE (f :> <<>>) @@ files

\* The loop "for idx in range(self.job_array_size)" from idx on.  acc holds
\* the log files, the directories, watched_logs and the files touched.
RECURSIVE LogLoop(_, _, _, _, _)
LogLoop(lp, n, refresh, idx, acc) ==
    IF idx >= n THEN acc
    ELSE LET watched_log == WatchedLog(lp, idx)
             f == PathStr(Resolve(watched_log))
             cleared == Refreshed(acc.logs, refresh, f)
         IN  LogLoop(lp, n, refresh, idx + 1,
                [logs |-> Touched(cleared, f),
                 dirs |-> acc.dirs \cup {PathStr(Parent(watched_log))},
                 watched_logs |-> Append(acc.watched_logs, f),
                 touched |-> IF f \in DOMAIN cleared THEN acc.touched
                             ELSE Append(acc.touched, [ev |-> "touch", path |-> f])])

\* get_log_paths(self)
get_log_paths(self, lp, disk) ==
    LogLoop(lp, self.job_array_size.int, self.refresh_logs, 0,
            [logs |-> disk.logs, dirs |-> disk.dirs,
             watched_logs |-> <<>>, touched |-> <<>>])

\* f"source {self.gen_scripts['master']}"
SubmissionCmd(scr) == <<"source ">> \o PathStr(scr["master"])

\* ------------------------------------------------- the caller and the disk
GpuCounts == {NoneV} \cup {IntV(n) : n \in (-1)..MaxGpus}

\* main()'s defaults, with a job array of one task
DefaultArgs ==
    [cmd |-> <<"echo hello">>,
     log_dir |-> <<"data", "/", "slurm-logs">>,
     recipe |-> "ray",
     job_name |-> <<"yaspi-test">>,
     partition |-> <<"gpu">>,
     env_setup |-> NoneV,
     refresh_logs |-> FALSE,
     template_dir |-> <<"templates">>,
     cpus_per_task |-> IntV(5),
     gpus_per_task |-> IntV(1),
     gen_script_dir |-> <<"data", "/", "slurm-gen-scripts">>,
     job_array_size |-> IntV(1)]

\* the arguments generate_scripts branches on or copies into the rules
GenerationArgs ==
    {[DefaultArgs EXCEPT !.recipe = r, !.env_setup = e, !.gpus_per_task = g,
                         !.gen_script_dir = d] :
        r \in {"ray", "dask"},
        e \in {NoneV, StrV(<<"module load cuda">>)},
        g \in GpuCounts,
        d \in {<<"data", "/", "slurm-gen-scripts">>, <<"/", "gen">>}}

\* the arguments get_log_paths reads
LogArgs ==
    {[DefaultArgs EXCEPT !.log_dir = l, !.refresh_logs = r, !.job_array_size = IntV(n)] :
        l \in {<<"data", "/", "slurm-logs">>, <<"/", "logs">>},
        r \in BOOLEAN,
        n \in 0..MaxArray}

\* What generate_scripts does with recipe, env_setup, gpus_per_task and
\* gen_script_dir does not depend on log_dir, refresh_logs or job_array_size,
\* which only get_log_paths reads (and the "array" rule copies): the two
\* groups are varied one at a time around main()'s defaults.
ArgChoices == GenerationArgs \cup LogArgs

Ph(name) == <<"{", "{", name, "}", "}">>

MasterRows ==
    << <<"sleep ">> \o Ph("nfs_update_secs"),
       <<"sbatch ">> \o Ph("ray_sbatch_path") >>

SbatchRows ==
    << <<"#SBATCH --job-name=">> \o Ph("job_name") \o <<" -p ">> \o Ph("partition"),
       <<"#SBATCH --array=">> \o Ph("array") \o <<" -c ">> \o Ph("cpus_per_task"),
       <<"#SBATCH --output=">> \o Ph("log_path"),
       Ph("env_setup"),
       Ph("head_init_script") \o <<" ">> \o Ph("worker_init_script"),
       <<"sleep ">> \o Ph("approx_ray_init_time_in_secs"),
       Ph("cmd") >>

NodeRows == << Ph("env_setup"), <<"ray start">> >>

GoodTemplates ==
    [role \in {"master", "sbatch", "head-node", "worker-node"} |->
        IF role = "master" THEN MasterRows
        ELSE IF role = "sbatch" THEN SbatchRows
        ELSE NodeRows]

\* the template trees: one whose names the rules always hold, one whose
\* sbatch template asks for the gpu resources, and two with a name ("z") no
\* rule table has, in the first and in the last role
TemplateChoices ==
    { GoodTemplates,
      [GoodTemplates EXCEPT !["sbatch"] = <<<<"#">> \o Ph("sbatch_resources")>> \o @],
      [GoodTemplates EXCEPT !["master"] = @ \o <<Ph("z")>>],
      [GoodTemplates EXCEPT !["worker-node"] = @ \o <<Ph("z")>>] }

\* the log file of task i of a job with these attributes
LogFile(self, i) ==
    PathStr(Resolve(PathOf(Replace(LogPath(self), "%4a", Pad4(i)))))

\* the log files an earlier job may have left: none, empty or written
InitialLogs(a) ==
    LET n == a.job_array_size.int
        files(c) == {LogFile(a, i) : i \in {j \in 1..n : c[j] # "absent"}}
        index(f) == CHOOSE i \in 1..n : LogFile(a, i) = f
    IN  {[f \in files(c) |-> IF c[index(f)] = "empty" THEN <<>> ELSE <<"old">>] :
            c \in [1..n -> {"absent", "empty", "old"}]}

NoFill ==
    /\ fpc = "none" /\ template = <<>> /\ frules = <<>> /\ generated = None

Init ==
    /\ args \in ArgChoices
    /\ templates \in IF args \in GenerationArgs THEN TemplateChoices
                     ELSE {GoodTemplates}
    /\ logs \in InitialLogs(args)
    /\ old_logs = <<>>
    /\ pc = "new" /\ job = NoneV /\ log_path = <<>> /\ gen_scripts = <<>>
    /\ rules = <<>> /\ error = None /\ read = {} /\ scripts = <<>> /\ dirs = {}
    /\ watch = FALSE /\ watched_logs = <<>> /\ events = <<>>
    /\ nsubmits = 0 /\ ncalls = 0
    /\ NoFill

\* ------------------------------------------------------------- the actions
\* job = Yaspi(**args): __init__ stores the arguments and calls
\* generate_scripts; an exception leaves no object behind
Construct ==
    /\ pc = "new"
    /\ LET done == generate_scripts(args, templates,
                                    [scripts |-> scripts, dirs |-> dirs])
       IN  /\ job' = done.self
           /\ log_path' = done.log_path
           /\ rules' = done.rules
           /\ gen_scripts' = done.gen_scripts
           /\ scripts' = done.scripts
           /\ dirs' = done.dirs
           /\ read' = done.read
           /\ error' = done.error
           /\ pc' = IF done.error = None THEN "idle" ELSE "failed"
    /\ UNCHANGED <<args, templates, logs, old_logs, watch, watched_logs,
                   events, nsubmits, ncalls>>

\* submit with the log paths computed but the files not ensured before the
\* command
SubmitBeginLate ==
    /\ pc = "idle"
    /\ nsubmits < MaxSubmits
    /\ \E w \in BOOLEAN :
          /\ watch' = w
          /\ events' = <<>>
          /\ IF w
             THEN /\ watched_logs' =
                        get_log_paths(job, log_path,
                                      [logs |-> logs, dirs |-> dirs]).watched_logs
                  /\ old_logs' = logs
                  /\ ncalls' = ncalls + 1
                  /\ UNCHANGED <<logs, dirs>>
             ELSE UNCHANGED <<logs, old_logs, dirs, watched_logs, ncalls>>
    /\ nsubmits' = nsubmits + 1
    /\ pc' = "logs_done"
    /\ UNCHANGED <<args, templates, job, log_path, gen_scripts, rules, error,
                   read, scripts>>

\* job.submit(watch=w) up to the call of os.system
SubmitBegin ==
    /\ pc = "idle"
    /\ nsubmits < MaxSubmits
    /\ \E w \in BOOLEAN :
          /\ watch' = w
          /\ IF w
             THEN LET got == get_log_paths(job, log_path,
                                           [logs |-> logs, dirs |-> dirs])
                  IN  /\ logs' = got.logs
                      /\ old_logs' = logs
                      /\ dirs' = got.dirs
                      /\ watched_logs' = got.watched_logs
                      /\ events' = got.touched
                      /\ ncalls' = ncalls + 1
             ELSE /\ events' = <<>>
                  /\ UNCHANGED <<logs, old_logs, dirs, watched_logs, ncalls>>
    /\ nsubmits' = nsubmits + 1
    /\ pc' = "logs_done"
    /\ UNCHANGED <<args, templates, job, log_path, gen_scripts, rules, error,
                   read, scripts>>

\* os.system(submission_cmd)
SubmitCommand ==
    /\ pc = "logs_done"
    /\ events' = Append(events, [ev |-> "cmd", line |-> SubmissionCmd(gen_scripts)])
    /\ pc' = "cmd_done"
    /\ UNCHANGED <<args, templates, job, log_path, gen_scripts, rules, error,
                   read, scripts, dirs, logs, old_logs, watch, watched_logs,
                   nsubmits, ncalls>>

\* Watcher(watched_logs=watched_logs).run() starts
SubmitWatch ==
    /\ pc = "cmd_done"
    /\ watch
    /\ events' = Append(events, [ev |-> "watch", paths |-> watched_logs])
    /\ pc' = "watching"
    /\ UNCHANGED <<args, templates, job, log_path, gen_scripts, rules, error,
                   read, scripts, dirs, logs, old_logs, watch, watched_logs,
                   nsubmits, ncalls>>

\* submit returns: after os.system without watch, else when the watcher ends
SubmitReturn ==
    /\ \/ pc = "cmd_done" /\ ~watch
       \/ pc = "watching"
    /\ pc' = "idle"
    /\ UNCHANGED <<args, templates, job, log_path, gen_scripts, rules, error,
                   read, scripts, dirs, logs, old_logs, watch, watched_logs,
                   events, nsubmits, ncalls>>

\* a task of the submitted job array writes to its log file
SchedulerWrite ==
    /\ pc \in {"cmd_done", "watching"}
    /\ \E i \in 1..job.job_array_size.int :
          LET f == LogFile(job, i)
              content == IF f \in DOMAIN logs THEN logs[f] ELSE <<>>
          IN  /\ Len(content) < MaxLogLen
              /\ logs' = (f :> Append(content, "out")) @@ logs
    /\ UNCHANGED <<args, templates, pc, job, log_path, gen_scripts, rules,
                   error, read, scripts, dirs, old_logs, watch, watched_logs,
                   events, nsubmits, ncalls>>

\* job.get_log_paths() called by the user of the object
CallGetLogPaths ==
    /\ pc = "idle"
    /\ ncalls < MaxCalls
    /\ LET got == get_log_paths(job, log_path, [logs |-> logs, dirs |-> dirs])
       IN  /\ logs' = got.logs
           /\ dirs' = got.dirs
           /\ watched_logs' = got.watched_logs
    /\ old_logs' = logs
    /\ ncalls' = ncalls + 1
    /\ UNCHANGED <<args, templates, pc, job, log_path, gen_scripts, rules,
                   error, read, scripts, watch, events, nsubmits>>

Next ==
    \/ Construct /\ UNCHANGED fillVars
    \/ SubmitBegin /\ UNCHANGED fillVars
    \/ SubmitCommand /\ UNCHANGED fillVars
    \/ SubmitWatch /\ UNCHANGED fillVars
    \/ SubmitReturn /\ UNCHANGED fillVars
    \/ SchedulerWrite /\ UNCHANGED fillVars
    \/ CallGetLogPaths /\ UNCHANGED fillVars

Spec == Init /\ [][Next]_vars

\* the Yaspi object is not part of a lone fill_template call
NoJob ==
    /\ args = <<>> /\ templates = <<>> /\ pc = "none" /\ job = <<>>
    /\ log_path = <<>> /\ gen_scripts = <<>> /\ rules = <<>> /\ error = None
    /\ read = {} /\ scripts = <<>> /\ dirs = {} /\ logs = <<>> /\ old_logs = <<>>
    /\ watch = FALSE /\ watched_logs = <<>> /\ events = <<>>
    /\ nsubmits = 0 /\ ncalls = 0

InitFill ==
    /\ fpc = "input"
    /\ template \in {<<r>> : r \in Rows} \cup ExampleTemplates
    /\ frules \in RuleChoices
    /\ generated = None
    /\ NoJob

NextFill ==
    \/ Fill /\ UNCHANGED mainVars
    \/ FillRaises /\ UNCHANGED mainVars

SpecFill == InitFill /\ [][NextFill]_vars

\* ---------------------------------------------------------------- claim C1
\* The row read left to right: the text before the first placeholder, the
\* stringified value of that placeholder's name, then the rest of the row
\* treated the same way.
RECURSIVE Interleaved(_, _)
Interleaved(row, rls) ==
    LET starts == {s \in 0..(Len(row) - 1) : MatchesAt(row, s)}
    IN  IF starts = {} THEN row
        ELSE LET s == Min(starts)
                 e == SpanAt(row, s)[2]
             IN  Slice(row, 0, s)
                 \o Str(rls[Group(row, <<s, e>>)])
                 \o Interleaved(Slice(row, e, Len(row)), rls)

RowABC == <<"a", "{", "{", "x", "}", "}", "b", "{", "{", "y", "}", "}", "c">>

\* C1: for a template line whose names are all in the rule mapping,
\* fill_template returns the literal segments interleaved, left to right,
\* with the stringified value of each placeholder, nothing dropped or
\* duplicated ("a{{x}}b{{y}}c" with x = "1", y = "22" gives "a1b22c"); the
\* call raises only for a name the mapping lacks.
C1_Interleave ==
    /\ (fpc = "done" /\ Len(template) = 1)
          => generated = Interleaved(template[1], frules)
    /\ (fpc = "done" /\ template = <<RowABC>> /\ <<"y">> \in DOMAIN frules)
          => generated = <<"a", "1", "b", "2", "2", "c">>
    /\ fpc = "raised" => generated \notin DOMAIN frules

C1_Witness ==
    /\ fpc = "done"
    /\ template = <<<<"{", "{", "x", "}", "}", "{", "{", "y", "}", "}">>>>
    /\ generated = <<"1", "2", "2">>

\* ================================================================== claims
Roles == {"master", "sbatch", "head-node", "worker-node"}

\* generate_scripts has run and took the "ray" branch
Built == pc # "new" /\ args.recipe = "ray"

\* the constructor returned an object
Generated == pc \notin {"new", "failed"}

\* ---------------------------------------------------------------- claim C2
\* the roles, by position in the recipe, whose template names a placeholder
\* that the role's rule table lacks
BadRoles ==
    {i \in 1..Len(RoleOrder) :
        LET names == TemplateKeys(templates[RoleOrder[i]])
        IN  \E k \in 1..Len(names) : names[k] \notin DOMAIN rules[RoleOrder[i]]}

\* dest_root joined with the template path relative to the template root
DestText(role) == args.gen_script_dir \o <<"/">> \o TemplatePaths[role]

\* C2 as stated: when a template references a placeholder name absent from
\* its role's rule mapping, the run fails and no rendered script file is
\* written to the destination tree by that run.
C2_NoPartialWrite ==
    (Built /\ BadRoles # {}) => (pc = "failed" /\ DOMAIN scripts = {})

\* C2 as amended: the run fails with KeyError exactly when some template
\* references a name its rule table lacks; no script is recorded or written
\* for the first such role nor for any role after it, and the scripts of the
\* roles before it are written and stay on disk.
C2_FailsAtFirstBadRole ==
    Built =>
        LET bad == BadRoles
            before == {RoleOrder[i] : i \in 1..(Min(bad) - 1)}
        IN  /\ (bad # {}) <=> (pc = "failed" /\ error = "KeyError")
            /\ bad # {} => /\ DOMAIN gen_scripts = before
                           /\ DOMAIN scripts = {DestText(r) : r \in before}
                           /\ read = before \cup {RoleOrder[Min(bad)]}

C2_Witness ==
    /\ pc = "failed" /\ error = "KeyError"
    /\ BadRoles = {4}
    /\ Cardinality(DOMAIN scripts) = 3

\* ---------------------------------------------------------------- claim C3
\* C3: a recipe other than "ray" fails at once with ValueError: no template
\* is read, no directory or script file is created, no script-set entry is
\* recorded, and no submission follows.
C3_UnsupportedRecipe ==
    (pc # "new" /\ args.recipe # "ray") =>
        /\ pc = "failed" /\ error = "ValueError"
        /\ read = {} /\ dirs = {}
        /\ DOMAIN scripts = {} /\ DOMAIN gen_scripts = {}
        /\ nsubmits = 0 /\ ncalls = 0 /\ events = <<>>

C3_Witness == pc = "failed" /\ error = "ValueError" /\ args.recipe = "dask"

\* ---------------------------------------------------------------- claim C4
EventsOf(kind) == {i \in 1..Len(events) : events[i].ev = kind}

\* the log file of task i, from the caller's arguments: the log directory,
\* the job name and the index written with four digits
FourDigits(i) ==
    <<DigitChar[((i \div 1000) % 10) + 1], DigitChar[((i \div 100) % 10) + 1],
      DigitChar[((i \div 10) % 10) + 1], DigitChar[(i % 10) + 1]>>

DerivedLog(i) ==
    (IF Head(args.log_dir) = "/" THEN <<>> ELSE <<"/", "work", "/">>)
    \o args.log_dir \o <<"/">> \o args.job_name \o <<"/">>
    \o FourDigits(i) \o <<"-log.txt">>

DerivedLogs == [i \in 1..args.job_array_size.int |-> DerivedLog(i)]

\* C4: in submit with watch true, every one of the N derived log files is
\* ensured to exist first, then the scheduler command sourcing the master
\* script is invoked exactly once, then the watcher is started with exactly
\* those N paths; no log file is created after the command and the watcher
\* never starts before the command.
C4_SubmitOrder ==
    (nsubmits > 0 /\ watch) =>
        /\ \A t \in EventsOf("touch"), c \in EventsOf("cmd") : t < c
        /\ \A c \in EventsOf("cmd"), w \in EventsOf("watch") : c < w
        /\ EventsOf("watch") # {} => EventsOf("cmd") # {}
        /\ Cardinality(EventsOf("cmd")) = (IF pc = "logs_done" THEN 0 ELSE 1)
        /\ Cardinality(EventsOf("watch")) =
              (IF pc \in {"logs_done", "cmd_done"} THEN 0 ELSE 1)
        /\ \A i \in 1..Len(DerivedLogs) : DerivedLogs[i] \in DOMAIN logs
        /\ \A c \in EventsOf("cmd") :
              events[c].line = <<"source ">> \o DestText("master")
        /\ \A w \in EventsOf("watch") : events[w].paths = DerivedLogs

C4_Witness ==
    /\ pc = "watching" /\ watch
    /\ Len(DerivedLogs) = 2
    /\ Len(events) = 4
    /\ events[1].ev = "touch" /\ events[2].ev = "touch"
    /\ events[3].ev = "cmd" /\ events[4].ev = "watch"

\* ---------------------------------------------------------------- claim C5
\* a step that is a call of get_log_paths
IsCall == ncalls' = ncalls + 1

\* C5: get_log_paths returns exactly N paths, the i-th being the log path
\* template with the index placeholder replaced by i (1-based) zero-padded
\* to 4 digits, resolved; after the call every returned path exists as a
\* file, empty if the call created it.
C5_LogPaths ==
    [][IsCall =>
          /\ watched_logs' = DerivedLogs
          /\ Len(watched_logs') = args.job_array_size.int
          /\ \A i \in 1..Len(watched_logs') :
                /\ watched_logs'[i] \in DOMAIN logs'
                /\ watched_logs'[i] \notin DOMAIN logs
                      => logs'[watched_logs'[i]] = <<>>]_vars

C5_Witness ==
    /\ ncalls = 1 /\ pc = "logs_done"
    /\ watched_logs = << <<"/", "logs", "/", "yaspi-test", "/",
                           "0", "0", "0", "1", "-log.txt">>,
                         <<"/", "logs", "/", "yaspi-test", "/",
                           "0", "0", "0", "2", "-log.txt">> >>
    /\ old_logs = <<>>
    /\ \A i \in 1..2 : logs[watched_logs[i]] = <<>>

\* ---------------------------------------------------------------- claim C6
\* C6: with refresh false a call of get_log_paths leaves the content of
\* every existing log file untouched, deletes no file, and returns the path
\* sequence the call before it returned.
C6_Idempotent ==
    [][(IsCall /\ ~job.refresh_logs) =>
          /\ \A f \in DOMAIN logs : f \in DOMAIN logs' /\ logs'[f] = logs[f]
          /\ ncalls >= 1 => watched_logs' = watched_logs]_vars

C6_Witness ==
    /\ ncalls >= 2 /\ pc = "idle" /\ ~job.refresh_logs
    /\ Len(watched_logs) = 2
    /\ old_logs = logs
    /\ \E i \in 1..2 : logs[watched_logs[i]] # <<>>

\* ---------------------------------------------------------------- claim C7
\* C7: with refresh true, once get_log_paths has returned and before the
\* scheduler command is invoked, every derived path exists and is empty,
\* whatever file was there before.
C7_Refreshed ==
    (pc = "logs_done" /\ watch /\ job.refresh_logs) =>
        \A i \in 1..Len(DerivedLogs) :
            /\ DerivedLogs[i] \in DOMAIN logs
            /\ logs[DerivedLogs[i]] = <<>>

C7_Witness ==
    /\ pc = "logs_done" /\ watch /\ job.refresh_logs
    /\ Len(DerivedLogs) = 2
    /\ \E i \in 1..2 : /\ DerivedLogs[i] \in DOMAIN old_logs
                       /\ old_logs[DerivedLogs[i]] # <<>>
                       /\ logs[DerivedLogs[i]] = <<>>

\* ---------------------------------------------------------------- claim C8
\* text contains the run of tokens part
Contains(text, part) ==
    \E i \in 0..(Len(text) - Len(part)) : SubSeq(text, i + 1, i + Len(part)) = part

\* C8: the sbatch rule table holds sbatch_resources if and only if the
\* accelerator count is specified and positive (absent, not empty, when it
\* is zero or unspecified), and the value then contains the count.
C8_ResourcesIffPositive ==
    Built =>
        /\ (<<"sbatch_resources">> \in DOMAIN rules["sbatch"])
              <=> ("int" \in DOMAIN args.gpus_per_task /\ args.gpus_per_task.int > 0)
        /\ <<"sbatch_resources">> \in DOMAIN rules["sbatch"] =>
              Contains(Str(rules["sbatch"][<<"sbatch_resources">>]),
                       IntStr(args.gpus_per_task.int))

\* ---------------------------------------------------------------- claim C9
\* C9: after a successful generation the master rule ray_sbatch_path equals
\* the destination recorded for the sbatch role, the sbatch rules
\* head_init_script and worker_init_script equal the destinations recorded
\* for the head-node and worker-node roles, every recorded destination is
\* dest_root joined with the template path relative to the template root,
\* and gen_scripts holds exactly the four roles.
C9_CrossReferences ==
    Generated =>
        /\ DOMAIN gen_scripts = Roles
        /\ \A r \in Roles : /\ PathStr(gen_scripts[r]) = DestText(r)
                            /\ PathStr(gen_scripts[r]) \in DOMAIN scripts
        /\ Str(rules["master"][<<"ray_sbatch_path">>]) = PathStr(gen_scripts["sbatch"])
        /\ Str(rules["sbatch"][<<"head_init_script">>]) = PathStr(gen_scripts["head-node"])
        /\ Str(rules["sbatch"][<<"worker_init_script">>])
              = PathStr(gen_scripts["worker-node"])

C9_Witness ==
    /\ pc = "idle" /\ error = None
    /\ args.gen_script_dir = <<"/", "gen">>
    /\ PathStr(gen_scripts["sbatch"]) = <<"/", "gen", "/", "ray", "/", "ray-sbatch.sh">>
    /\ Contains(scripts[PathStr(gen_scripts["master"])].text,
                <<"sbatch ", "/", "gen", "/", "ray", "/", "ray-sbatch.sh">>)

\* --------------------------------------------------------------- claim C10
\* C10: generate_scripts leaves every caller-supplied job field with the
\* value the caller supplied, also when no env_setup was supplied.
C10_JobSpecImmutable == pc # "new" => job = args

====
